---- MODULE Spec2Model ----
(***************************************************************************)
(* A model of pdf_compare.py: title extraction from the first page text,   *)
(* title normalisation, the difflib similarity ratio, the cross-folder     *)
(* matcher find_similar_titles and the configuration handling of main.     *)
(*                                                                         *)
(* Strings are sequences of one-character strings.  An absent value        *)
(* (Python None) is the one-element sequence None, which is no string of   *)
(* the character set.                                                      *)
(***************************************************************************)
EXTENDS Integers, Sequences, FiniteSets, TLC

VARIABLES
    pc,                   \* position of the running function
    \* --- normalize_title ---
    title,                \* argument of normalize_title
    normalized,           \* its return value
    \* --- difflib.SequenceMatcher(None, a, b).ratio() ---
    seq_a, seq_b,         \* the two normalized strings
    similarity,           \* the ratio, a fraction <<num, den>>
    \* --- extract_title_from_pdf ---
    pdf,                  \* the document handed to extract_title_from_pdf
    potential_title,      \* its return value
    \* --- main / find_similar_titles ---
    folder_a_ok, folder_b_ok,   \* os.path.isdir of the two inputs
    threshold_input,      \* the text typed for the threshold
    similarity_threshold, \* the threshold handed to find_similar_titles
    files_a, files_b,     \* the enumerated documents of both folders
    ia, ib,               \* loop positions over files_a / files_b
    folder_a_titles,      \* the title index of folder A, in insertion order
    similar_papers,       \* the list of match candidates
    scanned               \* documents handed to extract_title_from_pdf

vars == <<pc, title, normalized, seq_a, seq_b, similarity, pdf,
          potential_title, folder_a_ok, folder_b_ok, threshold_input,
          similarity_threshold, files_a, files_b, ia, ib, folder_a_titles,
          similar_papers, scanned>>

normVars    == <<title, normalized>>
ratioVars   == <<seq_a, seq_b, similarity>>
extractVars == <<pdf, potential_title>>
mainVars    == <<folder_a_ok, folder_b_ok, threshold_input, similarity_threshold,
                 files_a, files_b, ia, ib, folder_a_titles, similar_papers, scanned>>

None == <<"None">>

\* Python truthiness of an optional string: None and "" are falsy.
Truthy(s) == s # None /\ s # <<>>

Range(s) == {s[i] : i \in 1..Len(s)}

\* All sequences over S of length at most n.
SeqUpTo(S, n) == UNION {[1..k -> S] : k \in 0..n}

Min(S) == CHOOSE x \in S : \A y \in S : x <= y
Max(S) == CHOOSE x \in S : \A y \in S : x >= y

\* The elements of a finite set of numbers in increasing order.
RECURSIVE Ascending(_)
Ascending(S) == IF S = {} THEN <<>> ELSE <<Min(S)>> \o Ascending(S \ {Min(S)})

----------------------------------------------------------------------------
(* Characters.  \w is letters, digits and the underscore; \s is the space  *)
(* and the other whitespace characters (the tab stands for them).          *)

LowerChars == {"a", "b"}
UpperChars == {"A"}
DigitChars == {"1"}
Underscore == "_"
PunctChars == {"-"}
SpaceChars == {" ", "\t"}

Chars == LowerChars \cup UpperChars \cup DigitChars \cup {Underscore}
            \cup PunctChars \cup SpaceChars

IsAlnum(c) == c \in LowerChars \cup UpperChars \cup DigitChars
IsWordChar(c)  == IsAlnum(c) \/ c = Underscore      \* regex \w
IsSpaceChar(c) == c \in SpaceChars                  \* regex \s

LowerOf(c) == IF c = "A" THEN "a" ELSE c

\* str.lower()
lower(s) == [i \in 1..Len(s) |-> LowerOf(s[i])]

\* re.sub(r'[^\w\s]', ' ', s)
SubNonWord(s) ==
    [i \in 1..Len(s) |-> IF IsWordChar(s[i]) \/ IsSpaceChar(s[i]) THEN s[i] ELSE " "]

RECURSIVE DropSpaces(_)
DropSpaces(s) ==
    IF s # <<>> /\ IsSpaceChar(s[1]) THEN DropSpaces(Tail(s)) ELSE s

\* re.sub(r'\s+', ' ', s)
RECURSIVE SubSpaceRuns(_)
SubSpaceRuns(s) ==
    IF s = <<>> THEN <<>>
    ELSE IF IsSpaceChar(s[1]) THEN <<" ">> \o SubSpaceRuns(DropSpaces(s))
    ELSE <<s[1]>> \o SubSpaceRuns(Tail(s))

RECURSIVE DropTrailingSpaces(_)
DropTrailingSpaces(s) ==
    IF s # <<>> /\ IsSpaceChar(s[Len(s)])
    THEN DropTrailingSpaces(SubSeq(s, 1, Len(s) - 1)) ELSE s

\* str.strip()
strip(s) == DropTrailingSpaces(DropSpaces(s))

\* normalize_title with the strip applied before the substitutions.
normalize_title_strip_first(t) ==
    IF ~Truthy(t) THEN <<>>
    ELSE SubSpaceRuns(SubNonWord(strip(lower(t))))

normalize_title(t) ==
    IF ~Truthy(t) THEN <<>>
    ELSE strip(SubSpaceRuns(SubNonWord(lower(t))))

----------------------------------------------------------------------------
(* difflib.SequenceMatcher(None, a, b).ratio().  Positions are 0-based and *)
(* windows are half open, as in difflib; a[i] of Python is a[i+1] here.    *)

AutojunkLen == 200

Occurrences(c, b) == Cardinality({j \in 1..Len(b) : b[j] = c})

\* autojunk: in a b of 200 or more elements, the elements that occur more
\* than n // 100 + 1 times are left out of the b2j index.
bpopular(b) ==
    IF Len(b) >= AutojunkLen
    THEN {c \in Range(b) : Occurrences(c, b) > (Len(b) \div 100) + 1}
    ELSE {}

\* Length of the run of indexed matches a[i+d] = b[j+d] inside the window.
RECURSIVE RunLen(_, _, _, _, _, _)
RunLen(a, b, i, j, ahi, bhi) ==
    IF i < ahi /\ j < bhi /\ a[i + 1] = b[j + 1] /\ a[i + 1] \notin bpopular(b)
    THEN 1 + RunLen(a, b, i + 1, j + 1, ahi, bhi)
    ELSE 0

\* The block extended to the left / right over equal elements (this only
\* moves a block that borders on popular elements).
RECURSIVE ExtendLeft(_, _, _, _, _)
ExtendLeft(a, b, m, alo, blo) ==
    IF m.i > alo /\ m.j > blo /\ a[m.i] = b[m.j]
    THEN ExtendLeft(a, b, [i |-> m.i - 1, j |-> m.j - 1, size |-> m.size + 1], alo, blo)
    ELSE m

RECURSIVE ExtendRight(_, _, _, _, _)
ExtendRight(a, b, m, ahi, bhi) ==
    IF m.i + m.size < ahi /\ m.j + m.size < bhi
         /\ a[m.i + m.size + 1] = b[m.j + m.size + 1]
    THEN ExtendRight(a, b, [m EXCEPT !.size = m.size + 1], ahi, bhi)
    ELSE m

\* The longest block, of those the one starting earliest in a, of those the
\* one starting earliest in b; (alo, blo, 0) when nothing matches.
find_longest_match(a, b, alo, ahi, blo, bhi) ==
    LET Pairs == (alo..(ahi - 1)) \X (blo..(bhi - 1))
        Len_(p) == RunLen(a, b, p[1], p[2], ahi, bhi)
        best  == Max({0} \cup {Len_(p) : p \in Pairs})
    IN  IF best = 0 THEN [i |-> alo, j |-> blo, size |-> 0]
        ELSE LET besti == Min({p[1] : p \in {q \in Pairs : Len_(q) = best}})
                 bestj == Min({p[2] : p \in {q \in Pairs : q[1] = besti /\ Len_(q) = best}})
             IN  ExtendRight(a, b,
                    ExtendLeft(a, b, [i |-> besti, j |-> bestj, size |-> best], alo, blo),
                    ahi, bhi)

\* get_matching_blocks: the longest block of the window, then the same in
\* the remainders to its left and to its right; the sum of the block sizes.
RECURSIVE matches(_, _, _, _, _, _)
matches(a, b, alo, ahi, blo, bhi) ==
    LET m == find_longest_match(a, b, alo, ahi, blo, bhi)
    IN  IF m.size = 0 THEN 0
        ELSE m.size
             + (IF alo < m.i /\ blo < m.j
                THEN matches(a, b, alo, m.i, blo, m.j) ELSE 0)
             + (IF m.i + m.size < ahi /\ m.j + m.size < bhi
                THEN matches(a, b, m.i + m.size, ahi, m.j + m.size, bhi) ELSE 0)

\* quick_ratio(): the elements the two sequences share as multisets, whatever
\* their order.
quick_ratio(a, b) ==
    LET Avail(c) == IF Occurrences(c, a) < Occurrences(c, b)
                    THEN Occurrences(c, a) ELSE Occurrences(c, b)
        RECURSIVE Sum(_)
        Sum(S) == IF S = {} THEN 0
                  ELSE LET c == CHOOSE x \in S : TRUE IN Avail(c) + Sum(S \ {c})
    IN  IF Len(a) + Len(b) = 0 THEN <<1, 1>>
        ELSE <<2 * Sum(Range(a) \cap Range(b)), Len(a) + Len(b)>>

\* ratio(): 2.0 * matches / length, and 1.0 when both sequences are empty.
\* The float is kept as the fraction <<numerator, denominator>>.
ratio(a, b) ==
    IF Len(a) + Len(b) = 0 THEN <<1, 1>>
    ELSE <<2 * matches(a, b, 0, Len(a), 0, Len(b)), Len(a) + Len(b)>>

\* Comparison of two fractions with positive denominators.
FracEq(p, q)  == p[1] * q[2] = q[1] * p[2]
FracGeq(p, q) == p[1] * q[2] >= q[1] * p[2]
FracGt(p, q)  == p[1] * q[2] > q[1] * p[2]

----------------------------------------------------------------------------
(* extract_title_from_pdf.  A page text is the sequence of its lines (the  *)
(* text split at the newlines).  A line is known by what the function      *)
(* looks at: the keyword it starts with, if any ("digits" for a line that  *)
(* is all digits), and its length; lines carry no padding, so the stripped *)
(* line is the line.  The returned title is kept as the positions of the   *)
(* joined lines in the list of non-empty lines (0-based, as the loop       *)
(* index i), or as Prefix100 for the first 100 characters of the text.     *)
(* The title "" is the join of no lines.                                   *)

MaxScanLines   == 10
MinTitleLen    == 10
BreakIndex     == 2
MaxJoinedLines == 3
FallbackLen    == 100

SkipHeads1 == {"digits", "Vol.", "Abstract", "Pages", "Journal of"}
SkipHeads2 == {"Received", "Submitted", "Accepted", "Published", "Copyright", "DOI"}

Line(head, len) == [head |-> head, len |-> len]

\* The None that extract_title_from_pdf returns.
NoTitle == [kind |-> "None", lines |-> <<>>]
Prefix100 == [kind |-> "prefix", lines |-> <<>>]
Joined(ls) == [kind |-> "joined", lines |-> ls]

\* line.strip() is non-empty
NonEmpty(line) == line.len > 0

\* lines = [line.strip() for line in lines if line.strip()]
RECURSIVE NonEmptyLines(_)
NonEmptyLines(text) ==
    IF text = <<>> THEN <<>>
    ELSE IF NonEmpty(text[1]) THEN <<text[1]>> \o NonEmptyLines(Tail(text))
    ELSE NonEmptyLines(Tail(text))

\* len(first_page_text): the lines and the newlines between them
RECURSIVE TextLen(_)
TextLen(text) ==
    IF text = <<>> THEN 0
    ELSE text[1].len + (IF Len(text) > 1 THEN 1 ELSE 0) + TextLen(Tail(text))

\* The three tests of the loop body that end in continue.
Skipped(line) ==
    \/ line.head \in SkipHeads1
    \/ line.len < MinTitleLen
    \/ line.head \in SkipHeads2

FirstN(s, n) == SubSeq(s, 1, IF Len(s) < n THEN Len(s) ELSE n)

\* A loop whose break test is also reached by the skipped lines.
RECURSIVE ScanLinesBreakAlways(_, _, _)
ScanLinesBreakAlways(lines, i, acc) ==
    IF i >= Len(FirstN(lines, MaxScanLines)) THEN acc
    ELSE LET acc2 == IF Skipped(lines[i + 1]) THEN acc ELSE Append(acc, i)
         IN  IF i >= BreakIndex /\ Len(acc2) > 0 THEN acc2
             ELSE ScanLinesBreakAlways(lines, i + 1, acc2)

\* for i, line in enumerate(lines[:10]): the positions appended to
\* potential_title_lines from position i on, given those appended so far.
RECURSIVE ScanLines(_, _, _)
ScanLines(lines, i, acc) ==
    IF i >= Len(FirstN(lines, MaxScanLines)) THEN acc
    ELSE IF Skipped(lines[i + 1]) THEN ScanLines(lines, i + 1, acc)
    ELSE LET acc2 == Append(acc, i)
         IN  IF i >= BreakIndex /\ Len(acc2) > 0 THEN acc2
             ELSE ScanLines(lines, i + 1, acc2)

\* Lines 33-65: the title of a non-empty page text.
TitleOfText(text) ==
    LET lines == NonEmptyLines(text)
        potential_title_lines == ScanLines(lines, 0, <<>>)
        joined == FirstN(potential_title_lines, MaxJoinedLines)
    IN  IF joined = <<>> /\ TextLen(text) > FallbackLen THEN Prefix100
        ELSE Joined(joined)

\* A page text is falsy when it is the empty string.
EmptyText(text) == text = <<>> \/ (Len(text) = 1 /\ text[1].len = 0)

\* The whole function: an unreadable document raises inside the try and the
\* except clause returns None.
extract_title_from_pdf(d) ==
    IF ~d.readable THEN NoTitle
    ELSE IF Len(d.pages) = 0 THEN NoTitle
    ELSE LET first == d.pages[1]
             first_page_text == IF EmptyText(first) /\ Len(d.pages) > 1
                                THEN d.pages[2] ELSE first
         IN  IF EmptyText(first_page_text) THEN NoTitle
             ELSE TitleOfText(first_page_text)

----------------------------------------------------------------------------
(* main and find_similar_titles.  A document of a folder is known by       *)
(* whether it can be read and by the title the extraction gets from it;    *)
(* its relative path is <<folder, position in the enumeration>>.           *)

\* The text typed for the threshold: one float() rejects, or a number, kept
\* in tenths.
NoInput == [float |-> FALSE, tenths |-> 0]
Number(t) == [float |-> TRUE, tenths |-> t]

DefaultThreshold == <<8, 10>>

\* A main that keeps an out-of-range threshold.
threshold_of_unchecked(input) ==
    IF ~input.float THEN DefaultThreshold ELSE <<input.tenths, 10>>

\* Lines 203-210: the threshold main hands to find_similar_titles.
threshold_of(input) ==
    IF ~input.float THEN DefaultThreshold                       \* ValueError
    ELSE IF input.tenths < 0 \/ input.tenths > 10 THEN DefaultThreshold
    ELSE <<input.tenths, 10>>

\* A file that cannot be read gets a title all the same.
title_of_file_fallback(f) == IF ~f.readable THEN <<"a">> ELSE f.title

\* extract_title_from_pdf(file_path) as the loops see it: every exception
\* of the reading ends in the function's except clause, which returns None.
title_of_file(f) == IF ~f.readable THEN None ELSE f.title

Path(folder, i) == <<folder, i>>

\* similarity > similarity_threshold
exceeds_threshold(sim, threshold) == FracGt(sim, threshold)

\* similarity >= similarity_threshold
meets_threshold(sim, threshold) == FracGeq(sim, threshold)

\* Lines 112-118: the index after the document at position i of folder A.
index_with(index, f, i) ==
    LET t == title_of_file(f)
    IN  IF Truthy(t)
        THEN Append(index, [path |-> Path("A", i), original |-> t,
                            normalized |-> normalize_title(t)])
        ELSE index

\* Lines 138-151: the candidates of one B title against the index entries
\* from position k on, in the order of the index.
RECURSIVE candidates_of(_, _, _, _, _)
candidates_of(index, k, title_b, path_b, threshold) ==
    IF k > Len(index) THEN <<>>
    ELSE LET e   == index[k]
             sim == ratio(e.normalized, normalize_title(title_b))
             rest == candidates_of(index, k + 1, title_b, path_b, threshold)
         IN  IF meets_threshold(sim, threshold)
             THEN <<[path_a |-> e.path, path_b |-> path_b, title_a |-> e.original,
                     title_b |-> title_b, similarity |-> sim]>> \o rest
             ELSE rest

\* x put into a list sorted by similarity, behind the elements that are not
\* smaller / that are smaller.
RECURSIVE insert_desc(_, _)
insert_desc(x, sorted) ==
    IF sorted = <<>> THEN <<x>>
    ELSE IF FracGeq(sorted[1].similarity, x.similarity)
         THEN <<sorted[1]>> \o insert_desc(x, Tail(sorted))
         ELSE <<x>> \o sorted

RECURSIVE insert_asc(_, _)
insert_asc(x, sorted) ==
    IF sorted = <<>> THEN <<x>>
    ELSE IF FracGeq(x.similarity, sorted[1].similarity)
         THEN <<sorted[1]>> \o insert_asc(x, Tail(sorted))
         ELSE <<x>> \o sorted

\* similar_papers.sort(key=similarity) without reverse=True
RECURSIVE sort_ascending(_)
sort_ascending(papers) ==
    IF papers = <<>> THEN <<>>
    ELSE insert_asc(papers[Len(papers)], sort_ascending(SubSeq(papers, 1, Len(papers) - 1)))

\* similar_papers.sort(key=similarity, reverse=True): a stable sort, equal
\* similarities keep their order.
RECURSIVE sort_by_similarity(_)
sort_by_similarity(papers) ==
    IF papers = <<>> THEN <<>>
    ELSE insert_desc(papers[Len(papers)], sort_by_similarity(SubSeq(papers, 1, Len(papers) - 1)))

----------------------------------------------------------------------------
(* Values of the variables a specification does not use. *)

IdleNorm    == title = None /\ normalized = None
IdleRatio   == seq_a = <<>> /\ seq_b = <<>> /\ similarity = <<0, 1>>
IdleExtract == pdf = [readable |-> FALSE, pages |-> <<>>] /\ potential_title = NoTitle
IdleMain    == /\ folder_a_ok = FALSE /\ folder_b_ok = FALSE
               /\ threshold_input = NoInput /\ similarity_threshold = <<0, 1>>
               /\ files_a = <<>> /\ files_b = <<>> /\ ia = 0 /\ ib = 0
               /\ folder_a_titles = <<>> /\ similar_papers = <<>> /\ scanned = {}

----------------------------------------------------------------------------
(* normalize_title applied to one argument. *)

MaxTitleLen == 3

InitNorm ==
    /\ pc = "normalize_title"
    /\ title \in {None} \cup SeqUpTo(Chars, MaxTitleLen)
    /\ normalized = None
    /\ IdleRatio /\ IdleExtract /\ IdleMain

NormalizeTitle ==
    /\ pc = "normalize_title"
    /\ normalized' = normalize_title(title)
    /\ pc' = "done"
    /\ UNCHANGED <<title, ratioVars, extractVars, mainVars>>

NextNorm == NormalizeTitle

SpecNorm == InitNorm /\ [][NextNorm]_vars

----------------------------------------------------------------------------
(* The similarity ratio of two normalized titles, as find_similar_titles   *)
(* computes it for (normalized_title_a, normalized_title_b).               *)

MaxSeqLen == 3

RatioChars == {"a", "b", "1", " "}

NormalizedStrings ==
    {s \in SeqUpTo(RatioChars, MaxSeqLen) : normalize_title(s) = s}

InitRatio ==
    /\ pc = "ratio"
    /\ seq_a \in NormalizedStrings
    /\ seq_b \in NormalizedStrings
    /\ similarity = <<0, 1>>
    /\ IdleNorm /\ IdleExtract /\ IdleMain

ComputeRatio ==
    /\ pc = "ratio"
    /\ similarity' = ratio(seq_a, seq_b)
    /\ pc' = "done"
    /\ UNCHANGED <<seq_a, seq_b, normVars, extractVars, mainVars>>

NextRatio == ComputeRatio

SpecRatio == InitRatio /\ [][NextRatio]_vars

----------------------------------------------------------------------------
(* extract_title_from_pdf applied to one document. *)

MaxLines == 4
MaxPad   == 11

TitleLine    == Line("none", 34)     \* "A Fast Method For Widget Detection"
AuthorLine   == Line("none", 20)     \* "Jane Doe, John Smith"
ShortLine    == Line("none", 6)
YearLine     == Line("digits", 4)    \* "2023"
JournalLine  == Line("Journal of", 18)   \* "Journal of Testing"
AbstractLine == Line("Abstract", 13)     \* "Abstract: ..."
ReceivedLine == Line("Received", 30)
BlankLine    == Line("none", 0)

LineShapes == {TitleLine, AuthorLine, ShortLine, YearLine, JournalLine,
               AbstractLine, ReceivedLine, BlankLine}

ExampleText == <<JournalLine, YearLine, TitleLine, AuthorLine, AbstractLine>>

\* k short lines, after a leading title line or not, and a title line last.
PadText(k, lead) ==
    (IF lead THEN <<TitleLine>> ELSE <<>>)
        \o [i \in 1..(k + 1) |-> IF i <= k THEN ShortLine ELSE TitleLine]

Texts ==
    (SeqUpTo(LineShapes, MaxLines) \ {<<>>})
        \cup {ExampleText}
        \cup {PadText(k, lead) : k \in 0..MaxPad, lead \in BOOLEAN}

EmptyPage == <<BlankLine>>

Documents ==
    {[readable |-> FALSE, pages |-> <<>>], [readable |-> TRUE, pages |-> <<>>]}
        \cup {[readable |-> TRUE, pages |-> <<t>>] : t \in Texts}
        \cup {[readable |-> TRUE, pages |-> <<EmptyPage, t>>] : t \in Texts}

InitExtract ==
    /\ pc = "extract_title_from_pdf"
    /\ pdf \in Documents
    /\ potential_title = NoTitle
    /\ IdleNorm /\ IdleRatio /\ IdleMain

ExtractTitle ==
    /\ pc = "extract_title_from_pdf"
    /\ potential_title' = extract_title_from_pdf(pdf)
    /\ pc' = "done"
    /\ UNCHANGED <<pdf, normVars, ratioVars, mainVars>>

NextExtract == ExtractTitle

SpecExtract == InitExtract /\ [][NextExtract]_vars

----------------------------------------------------------------------------
(* Claims about extract_title_from_pdf (SpecExtract). *)

\* The page text the function works on, once it returned a joined title.
ScannedText ==
    IF EmptyText(pdf.pages[1]) /\ Len(pdf.pages) > 1 THEN pdf.pages[2] ELSE pdf.pages[1]

\* The first 10 non-empty lines and the positions of the candidates in them.
ScannedLines == FirstN(NonEmptyLines(ScannedText), MaxScanLines)
Candidates == {i \in 0..(Len(ScannedLines) - 1) : ~Skipped(ScannedLines[i + 1])}

IsJoined == pc = "done" /\ potential_title.kind = "joined"

\* C10 as stated: every joined line lies no later than the first position
\* i >= 2 at which a candidate has been accumulated, whether or not the
\* line at that position is a candidate; on the example text the title is
\* its third line.
C10_Original ==
    IsJoined =>
        LET reached == {i \in 0..(Len(ScannedLines) - 1) :
                          i >= BreakIndex /\ \E c \in Candidates : c <= i}
        IN  /\ Len(potential_title.lines) <= MaxJoinedLines
            /\ \A k \in Range(potential_title.lines) : k \in Candidates
            /\ reached # {} =>
                  \A k \in Range(potential_title.lines) : k <= Min(reached)
            /\ ScannedText = ExampleText => potential_title = Joined(<<2>>)

\* C10 amended: the title is the join, in order, of all candidate lines up
\* to and including the first candidate at a position i >= 2 (all the
\* candidates of the first 10 lines when there is none), which are at most
\* 3 lines; a discarded line at a position i >= 2 does not stop the scan.
\* On the example text the title is its third line.
C10_StopsAtFirstCandidateFrom2 ==
    IsJoined =>
        LET stops == {c \in Candidates : c >= BreakIndex}
            kept  == IF stops = {} THEN Candidates
                     ELSE {c \in Candidates : c <= Min(stops)}
        IN  /\ potential_title.lines = Ascending(kept)
            /\ Len(potential_title.lines) <= MaxJoinedLines
            /\ ScannedText = ExampleText => potential_title = Joined(<<2>>)

\* A candidate was accumulated, the line at position 2 was discarded, and
\* the scan went on to join a later candidate.
C10_Witness ==
    /\ IsJoined
    /\ Len(ScannedLines) > 3
    /\ Skipped(ScannedLines[3])
    /\ \E c \in Candidates : c < BreakIndex
    /\ \E k \in Range(potential_title.lines) : k > BreakIndex

----------------------------------------------------------------------------
(* The program: main reads the configuration and runs find_similar_titles. *)

MaxFiles == 2

RawTitles == {<<"A", "b">>, <<"a">>, <<"-">>}

ThresholdInputs == {NoInput, Number(-5), Number(5), Number(10), Number(15)}

Files ==
    {[readable |-> FALSE, title |-> None]}
        \cup {[readable |-> TRUE, title |-> t] : t \in {None, <<>>} \cup RawTitles}

Folders == SeqUpTo(Files, MaxFiles)

Init ==
    /\ pc = "main"
    /\ folder_a_ok = FALSE /\ folder_b_ok = FALSE
    /\ threshold_input = NoInput
    /\ similarity_threshold = DefaultThreshold
    /\ files_a = <<>> /\ files_b = <<>>
    /\ ia = 0 /\ ib = 0
    /\ folder_a_titles = <<>>
    /\ similar_papers = <<>>
    /\ scanned = {}
    /\ IdleNorm /\ IdleRatio /\ IdleExtract

\* Lines 189-198: the two folder inputs and their isdir tests.
ReadFolders ==
    /\ pc = "main"
    /\ \E a_ok \in BOOLEAN, b_ok \in BOOLEAN :
          /\ folder_a_ok' = a_ok
          /\ folder_b_ok' = b_ok
          /\ pc' = IF ~a_ok \/ ~b_ok THEN "invalid_directory" ELSE "threshold"
    /\ UNCHANGED <<threshold_input, similarity_threshold, files_a, files_b, ia, ib,
                   folder_a_titles, similar_papers, scanned,
                   normVars, ratioVars, extractVars>>

\* Lines 200-213 and 105-106: the threshold input, the call of
\* find_similar_titles and the enumeration of folder A.
ReadThreshold ==
    /\ pc = "threshold"
    /\ \E input \in ThresholdInputs, fa \in Folders :
          /\ threshold_input' = input
          /\ similarity_threshold' = threshold_of(input)
          /\ files_a' = fa
    /\ ia' = 1
    /\ pc' = "folder_a"
    /\ UNCHANGED <<folder_a_ok, folder_b_ok, files_b, ib, folder_a_titles,
                   similar_papers, scanned, normVars, ratioVars, extractVars>>

\* Lines 108-120: one round of the loop over folder A.
ProcessFileA ==
    /\ pc = "folder_a"
    /\ ia <= Len(files_a)
    /\ scanned' = scanned \cup {Path("A", ia)}
    /\ folder_a_titles' = index_with(folder_a_titles, files_a[ia], ia)
    /\ ia' = ia + 1
    /\ UNCHANGED <<pc, folder_a_ok, folder_b_ok, threshold_input, similarity_threshold,
                   files_a, files_b, ib, similar_papers,
                   normVars, ratioVars, extractVars>>

\* Lines 123-127: the loop over folder A is over; folder B is enumerated.
ListFolderB ==
    /\ pc = "folder_a"
    /\ ia > Len(files_a)
    /\ \E fb \in Folders : files_b' = fb
    /\ ib' = 1
    /\ pc' = "folder_b"
    /\ UNCHANGED <<folder_a_ok, folder_b_ok, threshold_input, similarity_threshold,
                   files_a, ia, folder_a_titles, similar_papers, scanned,
                   normVars, ratioVars, extractVars>>

\* Lines 129-153: one round of the loop over folder B, the loop over the
\* index included.
ProcessFileB ==
    /\ pc = "folder_b"
    /\ ib <= Len(files_b)
    /\ scanned' = scanned \cup {Path("B", ib)}
    /\ LET title_b == title_of_file(files_b[ib])
       IN  similar_papers' =
             IF Truthy(title_b)
             THEN similar_papers \o candidates_of(folder_a_titles, 1, title_b,
                                                  Path("B", ib), similarity_threshold)
             ELSE similar_papers
    /\ ib' = ib + 1
    /\ UNCHANGED <<pc, folder_a_ok, folder_b_ok, threshold_input, similarity_threshold,
                   files_a, files_b, ia, folder_a_titles,
                   normVars, ratioVars, extractVars>>

\* Lines 155-158: the sort and the return.
SortAndReturn ==
    /\ pc = "folder_b"
    /\ ib > Len(files_b)
    /\ similar_papers' = sort_by_similarity(similar_papers)
    /\ pc' = "returned"
    /\ UNCHANGED <<folder_a_ok, folder_b_ok, threshold_input, similarity_threshold,
                   files_a, files_b, ia, ib, folder_a_titles, scanned,
                   normVars, ratioVars, extractVars>>

Next ==
    \/ ReadFolders
    \/ ReadThreshold
    \/ ProcessFileA
    \/ ListFolderB
    \/ ProcessFileB
    \/ SortAndReturn

Spec == Init /\ [][Next]_vars

----------------------------------------------------------------------------
(* Claims about main and find_similar_titles (Spec). *)

Started == pc \in {"folder_a", "folder_b", "returned"}

FileA(p) == files_a[p.path_a[2]]
FileB(p) == files_b[p.path_b[2]]
Papers == {similar_papers[n] : n \in 1..Len(similar_papers)}

\* The normalized title of a document is empty: no title was extracted, or
\* the title has no letter or digit.
EmptyNormalized(f) == normalize_title(title_of_file(f)) = <<>>

\* C1: a document whose normalized title is empty, or whose extracted title
\* is absent or empty, is path_a or path_b of no match candidate.
C1_EmptyTitleNeverMatched ==
    \A p \in Papers : ~EmptyNormalized(FileA(p)) /\ ~EmptyNormalized(FileB(p))

IndexedB == {j \in 1..Len(files_b) : Truthy(title_of_file(files_b[j]))}

\* C2: the returned list holds exactly one candidate for each pair of an
\* indexed A document and an indexed B document whose ratio is >= the
\* threshold, none for the other pairs, and no candidate below the
\* threshold.
C2_ExactlyThePairsAtThreshold ==
    pc = "returned" =>
        /\ \A k \in 1..Len(folder_a_titles), j \in IndexedB :
              LET sim == ratio(folder_a_titles[k].normalized,
                               normalize_title(files_b[j].title))
                  found == {n \in 1..Len(similar_papers) :
                              /\ similar_papers[n].path_a = folder_a_titles[k].path
                              /\ similar_papers[n].path_b = Path("B", j)}
              IN  Cardinality(found) = IF FracGeq(sim, similarity_threshold) THEN 1 ELSE 0
        /\ \A p \in Papers :
              /\ FracGeq(p.similarity, similarity_threshold)
              /\ p.path_b[2] \in IndexedB
              /\ \E k \in 1..Len(folder_a_titles) : folder_a_titles[k].path = p.path_a

\* A returned list with a candidate exactly at the threshold, while another
\* pair of indexed documents is below it and left out.
C2_Witness ==
    /\ pc = "returned"
    /\ \E p \in Papers : FracEq(p.similarity, similarity_threshold)
    /\ Len(similar_papers) < Len(folder_a_titles) * Cardinality(IndexedB)

\* p was discovered before q: its B document is enumerated earlier, or it is
\* the same and its A document was put into the index earlier.
DiscoveredBefore(p, q) ==
    \/ p.path_b[2] < q.path_b[2]
    \/ p.path_b[2] = q.path_b[2] /\ p.path_a[2] < q.path_a[2]

\* C3: the returned list is sorted by similarity in non-increasing order,
\* and candidates of equal similarity keep their discovery order.
C3_SortedDescendingStable ==
    pc = "returned" =>
        \A n \in 1..(Len(similar_papers) - 1) :
            /\ FracGeq(similar_papers[n].similarity, similar_papers[n + 1].similarity)
            /\ FracEq(similar_papers[n].similarity, similar_papers[n + 1].similarity)
                  => DiscoveredBefore(similar_papers[n], similar_papers[n + 1])

\* A returned list with two candidates of equal similarity and a candidate
\* of a higher similarity that was discovered after one of them.
C3_Witness ==
    /\ pc = "returned"
    /\ \E n \in 1..(Len(similar_papers) - 1) :
          FracEq(similar_papers[n].similarity, similar_papers[n + 1].similarity)
    /\ \E n \in 1..(Len(similar_papers) - 1) :
          /\ FracGt(similar_papers[n].similarity, similar_papers[n + 1].similarity)
          /\ DiscoveredBefore(similar_papers[n + 1], similar_papers[n])

InvalidThreshold(input) == ~input.float \/ input.tenths < 0 \/ input.tenths > 10

\* C8 as stated: with a threshold input that is no number or lies outside
\* [0,1], or with a folder that is no directory, find_similar_titles is not
\* invoked and no document is scanned.
C8_Original ==
    (Started \/ scanned # {}) =>
        folder_a_ok /\ folder_b_ok /\ ~InvalidThreshold(threshold_input)

\* C8 amended: with a folder that is no directory, find_similar_titles is
\* not invoked and no document is scanned; with a threshold input that
\* float() rejects or that lies outside [0,1], main runs find_similar_titles
\* with the default threshold 0.8, and with any other input with the value
\* typed.
C8_InvalidFolderStopsInvalidThresholdDefaults ==
    /\ (Started \/ scanned # {}) => folder_a_ok /\ folder_b_ok
    /\ Started =>
          IF InvalidThreshold(threshold_input)
          THEN similarity_threshold = DefaultThreshold
          ELSE similarity_threshold = <<threshold_input.tenths, 10>>

\* The run scanned a document after a threshold input outside [0,1].
C8_Witness ==
    /\ Started
    /\ threshold_input.float /\ InvalidThreshold(threshold_input)
    /\ scanned # {}

Readable(folder, upto) == {i \in 1..upto : folder[i].readable}

\* The index entries of the documents at positions K of folder A.
EntriesOf(K) ==
    LET order == Ascending(K)
    IN  [n \in 1..Len(order) |->
            [path |-> Path("A", order[n]), original |-> files_a[order[n]].title,
             normalized |-> normalize_title(files_a[order[n]].title)]]

\* C9: a document that cannot be read never aborts the batch: its round of
\* the loop leaves the index and the candidates as they are and goes on to
\* the next document; it is in no index entry and no candidate; the index
\* holds every readable document of folder A with a title; and
\* find_similar_titles returns after every document of both folders was
\* processed.
C9_FailureNeverAborts ==
    /\ [][ /\ (pc = "folder_a" /\ ia <= Len(files_a) /\ ~files_a[ia].readable)
               => /\ folder_a_titles' = folder_a_titles
                  /\ similar_papers' = similar_papers
                  /\ pc' = "folder_a" /\ ia' = ia + 1
           /\ (pc = "folder_b" /\ ib <= Len(files_b) /\ ~files_b[ib].readable)
               => /\ folder_a_titles' = folder_a_titles
                  /\ similar_papers' = similar_papers
                  /\ pc' = "folder_b" /\ ib' = ib + 1 ]_vars
    /\ [](pc \in {"folder_b", "returned"} =>
            /\ folder_a_titles =
                  EntriesOf({i \in Readable(files_a, Len(files_a)) :
                               Truthy(files_a[i].title)})
            /\ \A p \in Papers : FileA(p).readable /\ FileB(p).readable)
    /\ [](pc = "returned" =>
            scanned = {Path("A", i) : i \in 1..Len(files_a)}
                        \cup {Path("B", j) : j \in 1..Len(files_b)})

\* find_similar_titles returned candidates although a document of each
\* folder, enumerated before a matching one, could not be read.
C9_Witness ==
    /\ pc = "returned"
    /\ Len(files_a) > 1 /\ ~files_a[1].readable
    /\ Len(files_b) > 1 /\ ~files_b[1].readable
    /\ similar_papers # <<>>

----------------------------------------------------------------------------
(* Claims about normalize_title (SpecNorm). *)

IsLowerAlnum(c) == c \in LowerChars \cup DigitChars

\* C6: the output of normalize_title holds only lower-case alphanumeric
\* characters and single spaces: every input character that is neither
\* alphanumeric nor whitespace (the underscore included) has become a space,
\* no two spaces are adjacent, there is no leading or trailing space, and
\* absent or empty input yields the empty string.
C6_OnlyLowerAlnumAndSingleSpaces ==
    pc = "done" /\ title # None =>
        /\ \A i \in 1..Len(normalized) :
              IsLowerAlnum(normalized[i]) \/ normalized[i] = " "
        /\ \A i \in 1..(Len(normalized) - 1) :
              ~(normalized[i] = " " /\ normalized[i + 1] = " ")
        /\ normalized # <<>> =>
              normalized[1] # " " /\ normalized[Len(normalized)] # " "
        /\ title = <<>> => normalized = <<>>

\* C7: normalize_title is idempotent: a second application to its own
\* result returns that result.
C7_NormalizeIdempotent ==
    pc = "done" => normalize_title(normalized) = normalized

\* A title with punctuation and whitespace that normalisation changed into
\* a non-empty string with an inner space.
C7_Witness ==
    /\ pc = "done"
    /\ title # None
    /\ normalized # title
    /\ \E i \in 1..Len(title) : title[i] \in PunctChars
    /\ \E i \in 1..Len(normalized) : normalized[i] = " "

----------------------------------------------------------------------------
(* Claims about the similarity ratio (SpecRatio). *)

\* C4: the ratio is symmetric: the ratio of (a, b) equals that of (b, a).
C4_RatioSymmetric ==
    pc = "done" => FracEq(similarity, ratio(seq_b, seq_a))

SharesNoChar(a, b) == Range(a) \cap Range(b) = {}

\* C5 as stated: the ratio lies in [0,1], is 1.0 exactly for identical
\* strings, and is 0.0 whenever the two strings share no character.
C5_Original ==
    pc = "done" =>
        /\ FracGeq(similarity, <<0, 1>>) /\ FracGeq(<<1, 1>>, similarity)
        /\ FracEq(similarity, <<1, 1>>) <=> seq_a = seq_b
        /\ SharesNoChar(seq_a, seq_b) => FracEq(similarity, <<0, 1>>)

\* C5 amended: the ratio lies in [0,1], is 1.0 exactly for identical
\* strings (two empty strings included), and is 0.0 whenever the two strings
\* share no character and are not both empty.
C5_RatioBounds ==
    pc = "done" =>
        /\ FracGeq(similarity, <<0, 1>>) /\ FracGeq(<<1, 1>>, similarity)
        /\ FracEq(similarity, <<1, 1>>) <=> seq_a = seq_b
        /\ SharesNoChar(seq_a, seq_b) /\ Len(seq_a) + Len(seq_b) > 0
              => FracEq(similarity, <<0, 1>>)

\* The ratio 0 was computed for two non-empty strings of several characters
\* that share none.
C5_Witness ==
    /\ pc = "done"
    /\ Len(seq_a) > 1 /\ Len(seq_b) > 1
    /\ SharesNoChar(seq_a, seq_b)
    /\ FracEq(similarity, <<0, 1>>)

====
